---- MODULE Spec2Model ----
(***************************************************************************)
(* Conversation memory and the two chat pipelines of the Neo-Latin chatbot *)
(* (src/src/rag_engine.py, src/app.py).                                    *)
(*                                                                         *)
(* The Flask server runs one thread per request.  ConversationMemory holds *)
(* a dict session_id -> list object and takes no lock, so a request thread *)
(* can be pre-empted between any two reads or writes of the dict or of a   *)
(* list.  Lists are modelled as objects on a heap (identity matters: a     *)
(* thread may hold a reference to a list that the dict no longer holds).   *)
(*                                                                         *)
(* Text is a sequence of one-character strings, so that str.strip(),       *)
(* str.lower(), str.split() and `in` are real operations; a fixed literal  *)
(* of the program (the apology, a header of the prompt) is one element.    *)
(*                                                                         *)
(* Spec runs the requests in parallel, SpecSeq and SpecDoc one at a time   *)
(* (SpecDoc with a vector store), SpecFn calls the pure methods of the     *)
(* engine on their own.                                                    *)
(***************************************************************************)
EXTENDS Integers, Sequences, FiniteSets, TLC

VARIABLES
    max_history,      \* ConversationMemory.max_history (config.MAX_CONVERSATION_HISTORY)
    conversations,    \* ConversationMemory.conversations: session -> list reference, 0 = key absent
    heap,             \* the list objects: reference -> sequence of turns
    th,               \* per request thread: position and local variables
    nreq,             \* number of requests started so far
    appended,         \* history variable: per session, every turn add_message appended since the last clear
    everCleared,      \* history variable: a clear request has been started
    rag_engine,       \* app.rag_engine: the engine object, or None (made = FALSE)
    pf                \* the arguments and results of calls of the pure methods

vars == <<max_history, conversations, heap, th, nreq, appended, everCleared, rag_engine, pf>>

\* ------------------------------------------------------------------ bounds
MaxMaxHistory == 2
MaxRequests == 2
MaxRequestsSeq == 3

\* --------------------------------------------------------------- universes
Sessions == {"s1", "s2"}
Threads == {"t1", "t2"}
NoList == 0

\* Raw request bodies: one with content and surrounding blanks, one blank.
RawMessages == { <<"q", " ">>, <<" ">> }

\* What the completion backend does with one request: it streams `frags`
\* and then ends, or raises (fails).  The text of its blocking completion is
\* the concatenation of the fragments.  A backend that cannot be reached (up
\* is FALSE) raises at once.
Backend ==
    { [frags |-> <<>>, fails |-> TRUE, up |-> FALSE],
      [frags |-> << <<"a">> >>, fails |-> FALSE, up |-> TRUE],
      [frags |-> << <<"a">> >>, fails |-> TRUE, up |-> TRUE],
      [frags |-> << <<"a">>, <<"b">> >>, fails |-> TRUE, up |-> TRUE],
      [frags |-> << <<" ", "a">>, <<"b", " ">> >>, fails |-> FALSE, up |-> TRUE] }

\* the backend behaviours drawn while requests run in parallel: a stream that
\* ends and one that raises after its first fragment
BackendPar == { b \in Backend : Len(b.frags) = IF b.fails THEN 1 ELSE 2 }

\* rag_engine.py:228 and :252, the fixed apology
Fallback == <<"I apologize, but I'm having trouble generating a response right now. Please try again.">>

\* ----------------------------------------------------------------- strings
Whitespace == {" ", "\n", "\t"}

RECURSIVE LStrip(_)
LStrip(s) == IF s # <<>> /\ Head(s) \in Whitespace THEN LStrip(Tail(s)) ELSE s

RECURSIVE RStrip(_)
RStrip(s) ==
    IF s # <<>> /\ s[Len(s)] \in Whitespace THEN RStrip(SubSeq(s, 1, Len(s) - 1)) ELSE s

\* str.strip()
Strip(s) == RStrip(LStrip(s))

RECURSIVE Concat(_)
Concat(ss) == IF ss = <<>> THEN <<>> ELSE Head(ss) \o Concat(Tail(ss))

\* ------------------------------------------------------------------- lists
\* Python's lst[-k:] for k >= 0.  -0 is 0, so lst[-0:] is lst[0:], the whole list.
PySliceLast(lst, k) ==
    IF k = 0 \/ k >= Len(lst) THEN lst ELSE SubSeq(lst, Len(lst) - k + 1, Len(lst))

\* {"role": role, "content": content}; inv is a history field naming the
\* request that appended the turn (the program does not store it).
Turn(role, content, inv) == [role |-> role, content |-> content, inv |-> inv]

\* a turn as the program stores it
Stored(turn) == [role |-> turn.role, content |-> turn.content]

StoredSeq(lst) == [i \in 1..Len(lst) |-> Stored(lst[i])]

\* ConversationMemory.add_message run without interruption, on a plain list
SeqAddMessage(lst, turn, mh) ==
    LET a == Append(lst, turn)
    IN IF Len(a) > mh * 2 THEN PySliceLast(a, mh * 2) ELSE a

\* ------------------------------------------------------ text of any length
\* str.lower() on the letters A-Z
LowerChar(c) ==
    CASE c = "A" -> "a"
      [] c = "B" -> "b"
      [] c = "C" -> "c"
      [] c = "D" -> "d"
      [] c = "E" -> "e"
      [] c = "F" -> "f"
      [] c = "G" -> "g"
      [] c = "H" -> "h"
      [] c = "I" -> "i"
      [] c = "J" -> "j"
      [] c = "K" -> "k"
      [] c = "L" -> "l"
      [] c = "M" -> "m"
      [] c = "N" -> "n"
      [] c = "O" -> "o"
      [] c = "P" -> "p"
      [] c = "Q" -> "q"
      [] c = "R" -> "r"
      [] c = "S" -> "s"
      [] c = "T" -> "t"
      [] c = "U" -> "u"
      [] c = "V" -> "v"
      [] c = "W" -> "w"
      [] c = "X" -> "x"
      [] c = "Y" -> "y"
      [] c = "Z" -> "z"
      [] OTHER -> c

Lower(s) == [i \in 1..Len(s) |-> LowerChar(s[i])]

\* keyword in text
Contains(text, keyword) ==
    \E i \in 1..(Len(text) - Len(keyword) + 1) :
        SubSeq(text, i, i + Len(keyword) - 1) = keyword

\* text.split() as a set: the maximal runs of characters that are no
\* whitespace, each from its first to its last position
WordStarts(text) ==
    {i \in 1..Len(text) :
        text[i] \notin Whitespace /\ (i = 1 \/ text[i - 1] \in Whitespace)}

WordEnd(text, i) ==
    CHOOSE j \in i..Len(text) :
        /\ j = Len(text) \/ text[j + 1] \in Whitespace
        /\ \A k \in i..j : text[k] \notin Whitespace

\* set(text.split())
Words(text) == {SubSeq(text, i, WordEnd(text, i)) : i \in WordStarts(text)}

\* separator.join(parts)
RECURSIVE Join(_, _)
Join(separator, parts) ==
    IF parts = <<>> THEN <<>>
    ELSE IF Len(parts) = 1 THEN parts[1]
    ELSE parts[1] \o separator \o Join(separator, Tail(parts))

\* ------------------------------------------------------- attribution filter
neo_latin_keywords ==
    {
      <<"n", "e", "o", "-", "l", "a", "t", "i", "n">>, <<"n", "e", "o", "l", "a", "t", "i", "n">>,
      <<"l", "a", "t", "i", "n">>, <<"r", "e", "n", "a", "i", "s", "s", "a", "n", "c", "e">>,
      <<"l", "i", "t", "e", "r", "a", "t", "u", "r", "e">>,
      <<"p", "e", "t", "r", "a", "r", "c", "h">>, <<"h", "u", "m", "a", "n", "i", "s", "t">>,
      <<"c", "l", "a", "s", "s", "i", "c", "a", "l">>,
      <<"m", "a", "n", "u", "s", "c", "r", "i", "p", "t">>, <<"p", "o", "e", "t", "r", "y">>,
      <<"p", "r", "o", "s", "e">>, <<"s", "c", "h", "o", "l", "a", "r", "l", "y">>,
      <<"s", "t", "u", "d", "i", "e", "s">>, <<"f", "i", "f", "t", "e", "e", "n", "t", "h">>,
      <<"s", "i", "x", "t", "e", "e", "n", "t", "h">>,
      <<"s", "e", "v", "e", "n", "t", "e", "e", "n", "t", "h">>,
      <<"e", "i", "g", "h", "t", "e", "e", "n", "t", "h">>, <<"c", "e", "n", "t", "u", "r", "y">>,
      <<"m", "e", "d", "i", "e", "v", "a", "l">>,
      <<"h", "u", "m", "a", "n", "i", "s", "t", "i", "c">> }

general_keywords ==
    {
      <<"w", "e", "a", "t", "h", "e", "r">>, <<"t", "i", "m", "e">>, <<"t", "o", "d", "a", "y">>,
      <<"t", "o", "m", "o", "r", "r", "o", "w">>,
      <<"h", "o", "w", " ", "a", "r", "e", " ", "y", "o", "u">>, <<"h", "e", "l", "l", "o">>,
      <<"h", "i">>, <<"t", "h", "a", "n", "k", "s">>,
      <<"t", "h", "a", "n", "k", " ", "y", "o", "u">>, <<"g", "o", "o", "d", "b", "y", "e">>,
      <<"b", "y", "e">>, <<"c", "u", "r", "r", "e", "n", "t">>, <<"n", "e", "w", "s">>,
      <<"p", "o", "l", "i", "t", "i", "c", "s">>, <<"s", "p", "o", "r", "t", "s">>,
      <<"f", "o", "o", "d">>, <<"c", "o", "o", "k", "i", "n", "g">> }

common_words ==
    {
      <<"t", "h", "e">>, <<"a">>, <<"a", "n">>, <<"a", "n", "d">>, <<"o", "r">>, <<"b", "u", "t">>,
      <<"i", "n">>, <<"o", "n">>, <<"a", "t">>, <<"t", "o">>, <<"f", "o", "r">>, <<"o", "f">>,
      <<"w", "i", "t", "h">>, <<"b", "y">>, <<"f", "r", "o", "m">>, <<"i", "s">>,
      <<"a", "r", "e">>, <<"w", "a", "s">>, <<"w", "e", "r", "e">>, <<"h", "a", "v", "e">>,
      <<"h", "a", "s">>, <<"h", "a", "d">>, <<"d", "o">>, <<"d", "o", "e", "s">>,
      <<"d", "i", "d">>, <<"w", "i", "l", "l">>, <<"w", "o", "u", "l", "d">>,
      <<"c", "o", "u", "l", "d">>, <<"s", "h", "o", "u", "l", "d">>, <<"c", "a", "n">>,
      <<"m", "a", "y">>, <<"m", "i", "g", "h", "t">>, <<"t", "h", "i", "s">>,
      <<"t", "h", "a", "t">>, <<"t", "h", "e", "s", "e">>, <<"t", "h", "o", "s", "e">>, <<"i">>,
      <<"y", "o", "u">>, <<"h", "e">>, <<"s", "h", "e">>, <<"i", "t">>, <<"w", "e">>,
      <<"t", "h", "e", "y">> }

\* any(keyword in text for keyword in keywords)
AnyKeywordIn(keywords, text) == \E keyword \in keywords : Contains(text, keyword)

\* a retrieved passage: its text and its metadata, a set of <<key, value>> pairs
Document(page_content, metadata) == [page_content |-> page_content, metadata |-> metadata]

\* metadata.get(key, default)
MetadataGet(metadata, key, default) ==
    IF \E p \in metadata : p[1] = key
    THEN (CHOOSE p \in metadata : p[1] = key)[2]
    ELSE default

\* len(doc_meaningful_words.intersection(response_meaningful_words))
Overlap(doc, response_lower) ==
    Cardinality((Words(Lower(doc.page_content)) \ common_words)
                    \cap (Words(response_lower) \ common_words))

\* for doc in documents: ... if overlap >= 5: has_content_overlap = True; break
\* (the threshold the comment in the source names)
RECURSIVE HasContentOverlapFive(_, _)
HasContentOverlapFive(documents, response_lower) ==
    IF documents = <<>> THEN FALSE
    ELSE IF Overlap(Head(documents), response_lower) >= 5 THEN TRUE
    ELSE HasContentOverlapFive(Tail(documents), response_lower)

\* for doc in documents: ... if overlap >= 3: has_content_overlap = True; break
RECURSIVE HasContentOverlap(_, _)
HasContentOverlap(documents, response_lower) ==
    IF documents = <<>> THEN FALSE
    ELSE IF Overlap(Head(documents), response_lower) >= 3 THEN TRUE
    ELSE HasContentOverlap(Tail(documents), response_lower)

\* a filter that asks for the general keywords only when the query has no
\* academic keyword
ShouldShowSourcesAcademicFirst(documents, query, response) ==
    IF documents = <<>> THEN FALSE
    ELSE LET query_lower == Lower(query)
             response_lower == Lower(response)
             query_has_academic_keywords == AnyKeywordIn(neo_latin_keywords, query_lower)
         IN IF ~query_has_academic_keywords /\ AnyKeywordIn(general_keywords, query_lower)
            THEN FALSE
            ELSE query_has_academic_keywords
                 /\ (\/ AnyKeywordIn(neo_latin_keywords, response_lower)
                     \/ HasContentOverlap(documents, response_lower))

\* RAGEngine._should_show_sources
ShouldShowSources(documents, query, response) ==
    IF documents = <<>> THEN FALSE
    ELSE LET query_lower == Lower(query)
             response_lower == Lower(response)
             query_has_academic_keywords == AnyKeywordIn(neo_latin_keywords, query_lower)
         IN IF AnyKeywordIn(general_keywords, query_lower)
            THEN FALSE
            ELSE query_has_academic_keywords
                 /\ (\/ AnyKeywordIn(neo_latin_keywords, response_lower)
                     \/ HasContentOverlap(documents, response_lower))

\* ---------------------------------------------------------- format_context
\* a context part whose content is never cut
ContextPartUncut(i, doc) ==
    LET source == MetadataGet(doc.metadata, "source_file", "Unknown source")
    IN <<"[Source", " ", ToString(i), ":", " ", source, "]", "\n">>
       \o Strip(doc.page_content)

\* f"[Source {i}: {source}]\n{content}" with the content stripped and cut
ContextPart(i, doc) ==
    LET source == MetadataGet(doc.metadata, "source_file", "Unknown source")
        content == Strip(doc.page_content)
        shown == IF Len(content) > 500 THEN SubSeq(content, 1, 500) \o <<"...">>
                 ELSE content
    IN <<"[Source", " ", ToString(i), ":", " ", source, "]", "\n">> \o shown

\* RAGEngine.format_context
FormatContext(documents) ==
    IF documents = <<>> THEN <<>>
    ELSE Join(<<"\n", "\n">>, [i \in 1..Len(documents) |-> ContextPart(i, documents[i])])

\* ------------------------------------------------- the sources of a result
SourceEntry(doc) ==
    [file |-> MetadataGet(doc.metadata, "source_file", "Unknown"),
     content_preview |-> IF Len(doc.page_content) > 200
                         THEN SubSeq(doc.page_content, 1, 200) \o <<"...">>
                         ELSE doc.page_content]

\* a loop that lets a later passage of a file replace the earlier one
RECURSIVE SourcesDictLast(_, _)
SourcesDictLast(docs, entries) ==
    IF docs = <<>> THEN entries
    ELSE LET e == SourceEntry(Head(docs))
         IN SourcesDictLast(Tail(docs),
                [i \in 1..Len(entries) |->
                    IF entries[i].file = e.file THEN e ELSE entries[i]]
                \o (IF \E i \in 1..Len(entries) : entries[i].file = e.file
                    THEN <<>> ELSE <<e>>))

\* for doc in relevant_docs: if source_file not in sources_dict: ...
\* (a dict keeps its keys in insertion order; `entries` is list(values()))
RECURSIVE SourcesDict(_, _)
SourcesDict(docs, entries) ==
    IF docs = <<>> THEN entries
    ELSE LET e == SourceEntry(Head(docs))
         IN SourcesDict(Tail(docs),
                        IF \E i \in 1..Len(entries) : entries[i].file = e.file
                        THEN entries ELSE Append(entries, e))

\* result["sources"]
ResultSources(relevant_docs, user_query, response) ==
    IF ShouldShowSources(relevant_docs, user_query, response)
    THEN SourcesDict(relevant_docs, <<>>) ELSE <<>>

\* ------------------------------------------------------------- build_prompt
SYSTEM_PROMPT == <<"config.SYSTEM_PROMPT">>
ContextHeader == <<"\n", "Relevant information from Neo-Latin handbooks:", "\n">>
HistoryHeader == <<"\n", "Conversation history:">>
HumanMarker == <<"\n", "Human:", " ">>
AssistantMarker == <<"\n", "Assistant:", " ">>

\* f"{role}: {msg['content']}"
HistoryLine(msg) ==
    <<IF msg.role = "user" THEN "Human" ELSE "Assistant", ":", " ">> \o msg.content

\* a build_prompt that puts the conversation history before the context
PromptPartsHistoryFirst(user_query, context, conversation_history) ==
    <<SYSTEM_PROMPT>>
    \o (IF conversation_history # <<>>
        THEN <<HistoryHeader>>
             \o [i \in 1..Len(PySliceLast(conversation_history, 6)) |->
                    HistoryLine(PySliceLast(conversation_history, 6)[i])]
        ELSE <<>>)
    \o (IF Strip(context) # <<>> THEN <<ContextHeader \o context>> ELSE <<>>)
    \o <<HumanMarker \o user_query, AssistantMarker>>

\* a build_prompt that renders every turn of the history (no [-6:])
PromptPartsWholeHistory(user_query, context, conversation_history) ==
    <<SYSTEM_PROMPT>>
    \o (IF Strip(context) # <<>> THEN <<ContextHeader \o context>> ELSE <<>>)
    \o (IF conversation_history # <<>>
        THEN <<HistoryHeader>>
             \o [i \in 1..Len(conversation_history) |->
                    HistoryLine(conversation_history[i])]
        ELSE <<>>)
    \o <<HumanMarker \o user_query, AssistantMarker>>

\* prompt_parts of build_prompt
PromptParts(user_query, context, conversation_history) ==
    <<SYSTEM_PROMPT>>
    \o (IF Strip(context) # <<>> THEN <<ContextHeader \o context>> ELSE <<>>)
    \o (IF conversation_history # <<>>
        THEN <<HistoryHeader>>
             \o [i \in 1..Len(PySliceLast(conversation_history, 6)) |->
                    HistoryLine(PySliceLast(conversation_history, 6)[i])]
        ELSE <<>>)
    \o <<HumanMarker \o user_query, AssistantMarker>>

\* -------------------------------------------------------------------- heap
Deref(h, ref) == IF ref = NoList THEN <<>> ELSE h[ref]

\* the list the dict holds for a session, <<>> when the key is absent
\* (what conversations.get(session_id, []) reads)
Log(s) == Deref(heap, conversations[s])

Logs == [s \in Sessions |-> Log(s)]

FreshRef(h) == CHOOSE i \in 1..(Cardinality(DOMAIN h) + 1) : i \notin DOMAIN h

LiveRefs(c, t) ==
    ({c[s] : s \in Sessions} \cup {t[x].lst : x \in Threads}
        \cup {t[x].history : x \in Threads}) \ {NoList}

\* list objects nothing refers to any more are dropped
Collect(h, c, t) == [i \in (DOMAIN h \cap LiveRefs(c, t)) |-> h[i]]

Alloc(h, ref, lst) == [i \in DOMAIN h \cup {ref} |-> IF i = ref THEN lst ELSE h[i]]

\* ----------------------------------------------------------------- threads
\* RAGEngine.build_prompt: "\n".join(prompt_parts), built from the query, the
\* context and the list it was handed, as that list is when the prompt is built
PromptOf(user_query, context, history) ==
    Join(<<"\n">>, PromptParts(user_query, context, history))

\* rag_engine = None
NoEngine == [made |-> FALSE, vector_store |-> FALSE, created |-> 0]

\* no pure method has been called
NoCall == [fn |-> "none"]

IdleThread ==
    [pc |-> "idle", op |-> "none", session_id |-> "s1", user_message |-> <<>>,
     inv |-> 0, history |-> NoList, prompt |-> <<>>, response |-> <<>>,
     frags |-> <<>>, fails |-> FALSE, fellback |-> FALSE, raw |-> <<>>,
     role |-> "none", content |-> <<>>, lst |-> NoList, newlst |-> <<>>,
     events |-> <<>>, status |-> "none", pre |-> [s \in Sessions |-> <<>>],
     relevant_docs |-> <<>>, context |-> <<>>, sources |-> <<>>,
     search |-> "none", calls |-> <<>>, unreachable |-> FALSE, body |-> <<>>,
     landed |-> <<>>, seen |-> <<>>]

Init ==
    /\ max_history \in 0..MaxMaxHistory
    /\ conversations = [s \in Sessions |-> NoList]
    /\ heap = <<>>
    /\ th = [t \in Threads |-> IdleThread]
    /\ nreq = 0
    /\ appended = [s \in Sessions |-> <<>>]
    /\ everCleared = FALSE
    /\ rag_engine = NoEngine
    /\ pf = NoCall

Free(t) == th[t].pc \in {"idle", "done"}

\* a request leaves its thread: the locals die, the outcome stays to be read
Finish(t, status, events, response) ==
    [th EXCEPT ![t] = [IdleThread EXCEPT !.pc = "done", !.op = th[t].op,
                          !.session_id = th[t].session_id,
                          !.user_message = th[t].user_message,
                          !.inv = th[t].inv, !.raw = th[t].raw,
                          !.fails = th[t].fails, !.fellback = th[t].fellback,
                          !.pre = th[t].pre, !.status = status,
                          !.events = events, !.response = response,
                          !.relevant_docs = th[t].relevant_docs,
                          !.context = th[t].context, !.search = th[t].search,
                          !.calls = th[t].calls,
                          !.unreachable = th[t].unreachable,
                          !.body = th[t].body, !.landed = th[t].landed]]

\* ------------------------------------------------------ request entry points
\* initialize_rag_engine: RAGEngine() is called while rag_engine is None;
\* when the constructor raises, rag_engine stays None.  The constructor loads
\* the vector store (or finds none) and ends with _test_ollama_connection,
\* which asks the backend for its models and swallows every exception.
\* created counts the engines the process has constructed: it tells one
\* engine object from the next.
Constructed(engine, ctor) ==
    IF ctor.raises THEN [NoEngine EXCEPT !.created = engine.created]
    ELSE [made |-> TRUE, vector_store |-> ctor.vector_store,
          created |-> engine.created + 1]

InitializeRagEngine(engine, ctor) ==
    IF engine.made THEN engine ELSE Constructed(engine, ctor)

\* the calls to the outside initialize_rag_engine makes
InitCalls(engine, ctor) ==
    IF ~engine.made /\ ~ctor.raises THEN <<"connection_test">> ELSE <<>>

\* a search_documents without its except clause
SearchDocumentsUnguarded(vector_store, search) ==
    IF ~vector_store THEN <<>> ELSE search.found

\* DocumentProcessor.search_documents: [] without a vector store, [] when
\* similarity_search raises, its results otherwise
SearchDocuments(vector_store, search) ==
    IF ~vector_store THEN <<>>
    ELSE IF search.raises THEN <<>>
    ELSE search.found

SearchOutcome(vector_store, search) ==
    IF ~vector_store THEN "no_store" ELSE IF search.raises THEN "raised" ELSE "ok"

\* What the routes do before they reach memory: app.chat and app.chat_stream
\* create the engine if there is none, answer 500 without an engine, strip
\* the message and answer 400 to a blank one.  Retrieval and format_context
\* read no memory and are part of the first step.
Begin(t, op, s, raw, calls, vector_store, search) ==
    LET docs == SearchDocuments(vector_store, search)
    IN [th EXCEPT ![t] = [IdleThread EXCEPT !.pc = "get_history", !.op = op,
                             !.session_id = s, !.body = raw,
                             !.user_message = Strip(raw),
                             !.inv = nreq + 1, !.pre = Logs,
                             !.relevant_docs = docs,
                             !.context = FormatContext(docs),
                             !.search = SearchOutcome(vector_store, search),
                             !.calls = calls \o (IF vector_store THEN <<"retrieval">>
                                                 ELSE <<>>)]]

Reject(t, op, s, raw, calls) ==
    [th EXCEPT ![t] = [IdleThread EXCEPT !.pc = "done", !.op = op,
                          !.session_id = s, !.body = raw, !.inv = nreq + 1, !.pre = Logs,
                          !.status = "400", !.calls = calls]]

\* return jsonify({'error': 'RAG engine not available'}), 500
Unavailable(t, op, s, raw, calls) ==
    [th EXCEPT ![t] = [IdleThread EXCEPT !.pc = "done", !.op = op,
                          !.session_id = s, !.body = raw, !.inv = nreq + 1, !.pre = Logs,
                          !.status = "unavailable", !.calls = calls]]

Route(t, op, s, raw, ctor, search) ==
    LET engine == InitializeRagEngine(rag_engine, ctor)
        calls == InitCalls(rag_engine, ctor)
    IN IF ~engine.made THEN Unavailable(t, op, s, raw, calls)
       ELSE IF Strip(raw) = <<>> THEN Reject(t, op, s, raw, calls)
       ELSE Begin(t, op, s, raw, calls, engine.vector_store, search)

StartChat(t, w) ==
    /\ Free(t)
    /\ nreq < w.limit
    /\ \E s \in Sessions, raw \in w.messages, ctor \in w.ctor, search \in w.search :
          /\ th' = Route(t, "chat", s, raw, ctor, search)
          /\ rag_engine' = InitializeRagEngine(rag_engine, ctor)
    /\ nreq' = nreq + 1
    /\ heap' = Collect(heap, conversations, th')
    /\ UNCHANGED <<pf, max_history, conversations, appended, everCleared>>

StartStream(t, w) ==
    /\ Free(t)
    /\ nreq < w.limit
    /\ \E s \in Sessions, raw \in w.messages, ctor \in w.ctor, search \in w.search :
          /\ th' = Route(t, "stream", s, raw, ctor, search)
          /\ rag_engine' = InitializeRagEngine(rag_engine, ctor)
    /\ nreq' = nreq + 1
    /\ heap' = Collect(heap, conversations, th')
    /\ UNCHANGED <<pf, max_history, conversations, appended, everCleared>>

\* app.clear_conversation: if session_id and rag_engine: ...; without an
\* engine the route answers success at once
StartClear(t, w) ==
    /\ Free(t)
    /\ nreq < w.limit
    /\ \E s \in Sessions :
          th' = [th EXCEPT ![t] = [IdleThread EXCEPT
                                      !.pc = IF rag_engine.made THEN "clear_check"
                                             ELSE "done",
                                      !.status = IF rag_engine.made THEN "none"
                                                 ELSE "200",
                                      !.op = "clear", !.session_id = s,
                                      !.inv = nreq + 1, !.pre = Logs]]
    /\ nreq' = nreq + 1
    /\ everCleared' = TRUE
    /\ heap' = Collect(heap, conversations, th')
    /\ UNCHANGED <<pf, rag_engine, max_history, conversations, appended>>

\* initialize_rag_engine in steps.  A request of /chat or /chat/stream that
\* finds `rag_engine is None` goes on to call RAGEngine(); the check and the
\* assignment are separate steps and no lock joins them.
EnterInit(t, w) ==
    /\ Free(t)
    /\ nreq < w.limit
    /\ ~rag_engine.made
    /\ \E op \in {"chat", "stream"}, s \in Sessions, raw \in w.messages :
          th' = [th EXCEPT ![t] = [IdleThread EXCEPT !.pc = "init_ctor", !.op = op,
                                      !.session_id = s, !.body = raw,
                                      !.inv = nreq + 1, !.pre = Logs]]
    /\ nreq' = nreq + 1
    /\ heap' = Collect(heap, conversations, th')
    /\ UNCHANGED <<pf, rag_engine, max_history, conversations, appended, everCleared>>

\* rag_engine = RAGEngine(), or rag_engine = None in the except clause; the
\* route then goes on with the engine it finds.  A new engine has a new,
\* empty ConversationMemory.  The step is taken while no other request is
\* between its own initialisation and its end, so that every request works
\* on one engine throughout.
InitAssign(t, w) ==
    /\ th[t].pc = "init_ctor"
    /\ \A o \in Threads \ {t} : Free(o) \/ th[o].pc = "init_ctor"
    /\ \E ctor \in w.ctor, search \in w.search :
          LET engine == Constructed(rag_engine, ctor)
              calls == InitCalls(NoEngine, ctor)
              op == th[t].op
              s == th[t].session_id
              raw == th[t].body
              routed == IF ~engine.made THEN Unavailable(t, op, s, raw, calls)
                        ELSE IF Strip(raw) = <<>> THEN Reject(t, op, s, raw, calls)
                        ELSE Begin(t, op, s, raw, calls, engine.vector_store, search)
          IN /\ rag_engine' = engine
             /\ th' = [routed EXCEPT ![t].inv = th[t].inv,
                                     ![t].pre = [x \in Sessions |-> <<>>]]
    /\ conversations' = [s \in Sessions |-> NoList]
    /\ appended' = [s \in Sessions |-> <<>>]
    /\ heap' = Collect(heap, conversations', th')
    /\ UNCHANGED <<pf, max_history, nreq, everCleared>>

\* ------------------------------------------------------------- the pipeline
\* conversation_history = memory.get_conversation_history(session_id):
\* dict.get hands out the stored list object itself, or a new empty list.
GetHistory(t) ==
    /\ th[t].pc = "get_history"
    /\ th' = [th EXCEPT ![t].history = conversations[th[t].session_id],
                        ![t].seen = StoredSeq(Log(th[t].session_id)),
                        ![t].pc = "build_prompt"]
    /\ UNCHANGED <<pf, rag_engine, max_history, conversations, heap, nreq, appended, everCleared>>

BuildPrompt(t) ==
    /\ th[t].pc = "build_prompt"
    /\ th' = [th EXCEPT ![t].prompt =
                            PromptOf(th[t].user_message, th[t].context,
                                     StoredSeq(Deref(heap, th[t].history))),
                        ![t].history = NoList, ![t].seen = <<>>,
                        ![t].pc = IF th[t].op = "chat" THEN "generate" ELSE "stream_open"]
    /\ heap' = Collect(heap, conversations, th')
    /\ UNCHANGED <<pf, rag_engine, max_history, conversations, nreq, appended, everCleared>>

\* a generate_response without its except clause: whatever text arrived
GenerateResponseUnguarded(frags, fails) == Strip(Concat(frags))

\* generate_response: the stripped completion, or the apology when the client raises
GenerateResponse(frags, fails) == IF fails THEN Fallback ELSE Strip(Concat(frags))

\* the call of add_message(session_id, role, content) starts
CallAdd(rec, role, content) ==
    [rec EXCEPT !.role = role, !.content = content, !.pc = "add_check"]

Generate(t, backend) ==
    /\ th[t].pc = "generate"
    /\ \E b \in backend :
          LET r == GenerateResponse(b.frags, b.fails)
          IN th' = [th EXCEPT ![t] =
                       CallAdd([th[t] EXCEPT !.response = r, !.raw = Concat(b.frags),
                                             !.fails = b.fails,
                                             !.unreachable = ~b.up,
                                             !.calls = Append(@, "completion")],
                               "user", th[t].user_message)]
    /\ UNCHANGED <<pf, rag_engine, max_history, conversations, heap, nreq, appended, everCleared>>

\* ------------------------------------------------------------- add_message
\* An exception leaves the engine.  app.chat answers 500; the generator of
\* app.chat_stream yields its error event, which ends the stream.
ErrorEvent == [kind |-> "error", done |-> TRUE]
DoneEvent == [kind |-> "complete", done |-> TRUE]
ChunkEvent(text) == [kind |-> "chunk", done |-> FALSE, text |-> text]

\* a handler that ends the request without reporting the exception
RaiseSilently(t) == Finish(t, IF th[t].op = "stream" THEN "stream_error" ELSE "500",
                           th[t].events, th[t].response)

Raise(t) ==
    IF th[t].op = "stream"
    THEN Finish(t, "stream_error", Append(th[t].events, ErrorEvent), th[t].response)
    ELSE Finish(t, "500", th[t].events, th[t].response)

\* add_message returns to its caller: the first call is followed by the
\* second; after the second, chat returns its result and the generator goes
\* on to its last yield.
AddReturn(t) ==
    IF th[t].role = "user"
    THEN [th EXCEPT ![t] = CallAdd([th[t] EXCEPT !.lst = NoList, !.newlst = <<>>],
                                   "assistant", th[t].response)]
    ELSE IF th[t].op = "stream"
    THEN [th EXCEPT ![t].pc = "yield_done", ![t].lst = NoList, ![t].newlst = <<>>]
    ELSE [Finish(t, "200", th[t].events, th[t].response) EXCEPT
              ![t].sources = ResultSources(th[t].relevant_docs, th[t].user_message,
                                           th[t].response)]

\* if session_id not in self.conversations:
AddCheck(t) ==
    /\ th[t].pc = "add_check"
    /\ th' = [th EXCEPT ![t].pc = IF conversations[th[t].session_id] = NoList
                                  THEN "add_create" ELSE "add_lookup"]
    /\ UNCHANGED <<pf, rag_engine, max_history, conversations, heap, nreq, appended, everCleared>>

\* self.conversations[session_id] = []
AddCreate(t) ==
    /\ th[t].pc = "add_create"
    /\ LET ref == FreshRef(heap)
       IN /\ conversations' = [conversations EXCEPT ![th[t].session_id] = ref]
          /\ th' = [th EXCEPT ![t].pc = "add_lookup"]
          /\ heap' = Collect(Alloc(heap, ref, <<>>), conversations', th')
    /\ UNCHANGED <<pf, rag_engine, max_history, nreq, appended, everCleared>>

\* self.conversations[session_id]  (the receiver of .append)
AddLookup(t) ==
    /\ th[t].pc = "add_lookup"
    /\ th' = IF conversations[th[t].session_id] = NoList
             THEN Raise(t)
             ELSE [th EXCEPT ![t].lst = conversations[th[t].session_id],
                             ![t].pc = "add_append"]
    /\ heap' = Collect(heap, conversations, th')
    /\ UNCHANGED <<pf, rag_engine, max_history, conversations, nreq, appended, everCleared>>

\* .append({"role": role, "content": content})
AddAppend(t) ==
    /\ th[t].pc = "add_append"
    /\ LET turn == Turn(th[t].role, th[t].content, th[t].inv)
           ref == th[t].lst
       IN /\ th' = [th EXCEPT ![t].lst = NoList, ![t].pc = "add_len",
                              ![t].landed =
                                  Append(@, conversations[th[t].session_id] = ref)]
          /\ heap' = Collect([heap EXCEPT ![ref] = Append(@, turn)], conversations, th')
          /\ appended' = [appended EXCEPT ![th[t].session_id] = Append(@, turn)]
    /\ UNCHANGED <<pf, rag_engine, max_history, conversations, nreq, everCleared>>

\* if len(self.conversations[session_id]) > self.max_history * 2:
AddLen(t) ==
    /\ th[t].pc = "add_len"
    /\ th' = IF conversations[th[t].session_id] = NoList
             THEN Raise(t)
             ELSE IF Len(Log(th[t].session_id)) > max_history * 2
             THEN [th EXCEPT ![t].pc = "add_slice"]
             ELSE AddReturn(t)
    /\ heap' = Collect(heap, conversations, th')
    /\ UNCHANGED <<pf, rag_engine, max_history, conversations, nreq, appended, everCleared>>

\* self.conversations[session_id][-self.max_history * 2:]  (a new list)
AddSlice(t) ==
    /\ th[t].pc = "add_slice"
    /\ th' = IF conversations[th[t].session_id] = NoList
             THEN Raise(t)
             ELSE [th EXCEPT ![t].newlst =
                                 PySliceLast(Log(th[t].session_id), max_history * 2),
                             ![t].pc = "add_store"]
    /\ heap' = Collect(heap, conversations, th')
    /\ UNCHANGED <<pf, rag_engine, max_history, conversations, nreq, appended, everCleared>>

\* self.conversations[session_id] = <the new list>
AddStore(t) ==
    /\ th[t].pc = "add_store"
    /\ LET ref == FreshRef(heap)
       IN /\ conversations' = [conversations EXCEPT ![th[t].session_id] = ref]
          /\ th' = AddReturn(t)
          /\ heap' = Collect(Alloc(heap, ref, th[t].newlst), conversations', th')
    /\ UNCHANGED <<pf, rag_engine, max_history, nreq, appended, everCleared>>

\* ------------------------------------------------------ the streaming route
\* generate_response_stream is entered: the backend will stream `frags` and
\* then either end or raise (fails), which the generator answers with the apology
StreamOpen(t, backend) ==
    /\ th[t].pc = "stream_open"
    /\ \E b \in backend :
          th' = [th EXCEPT ![t].frags = b.frags, ![t].fails = b.fails,
                           ![t].unreachable = ~b.up,
                           ![t].calls = Append(@, "completion"),
                           ![t].raw = Concat(b.frags), ![t].response = <<>>,
                           ![t].pc = "streaming"]
    /\ UNCHANGED <<pf, rag_engine, max_history, conversations, heap, nreq, appended, everCleared>>

\* one round of the loop: full_response += chunk; yield the chunk event
Forward(t, chunk) ==
    [th EXCEPT ![t].response = @ \o chunk,
               ![t].events = Append(@, ChunkEvent(chunk))]

StreamChunk(t) ==
    /\ th[t].pc = "streaming"
    /\ th[t].frags # <<>>
    /\ th' = [Forward(t, Head(th[t].frags)) EXCEPT ![t].frags = Tail(th[t].frags)]
    /\ UNCHANGED <<pf, rag_engine, max_history, conversations, heap, nreq, appended, everCleared>>

\* an except clause that ends the fragment sequence without the apology
StreamFallbackSilent(t) ==
    /\ th[t].pc = "streaming"
    /\ th[t].frags = <<>>
    /\ th[t].fails /\ ~th[t].fellback
    /\ th' = [th EXCEPT ![t].fellback = TRUE]
    /\ UNCHANGED <<pf, rag_engine, max_history, conversations, heap, nreq, appended, everCleared>>

\* the backend raised: except Exception: yield <the apology>
StreamFallback(t) ==
    /\ th[t].pc = "streaming"
    /\ th[t].frags = <<>>
    /\ th[t].fails /\ ~th[t].fellback
    /\ th' = [Forward(t, Fallback) EXCEPT ![t].fellback = TRUE]
    /\ UNCHANGED <<pf, rag_engine, max_history, conversations, heap, nreq, appended, everCleared>>

\* the fragment sequence is exhausted: memory.add_message(session_id, "user", ...)
StreamEnd(t) ==
    /\ th[t].pc = "streaming"
    /\ th[t].frags = <<>>
    /\ th[t].fails => th[t].fellback
    /\ th' = [th EXCEPT ![t] = CallAdd(th[t], "user", th[t].user_message)]
    /\ UNCHANGED <<pf, rag_engine, max_history, conversations, heap, nreq, appended, everCleared>>

\* the consumer closes the stream while the generator is suspended at the
\* yield of a chunk event: GeneratorExit is no Exception, the generator ends
Abandon(t) ==
    /\ th[t].pc = "streaming"
    /\ th[t].events # <<>>
    /\ th' = Finish(t, "abandoned", th[t].events, th[t].response)
    /\ UNCHANGED <<pf, rag_engine, max_history, conversations, heap, nreq, appended, everCleared>>

\* yield {'done': True, 'session_id': session_id}
YieldDone(t) ==
    /\ th[t].pc = "yield_done"
    /\ th' = Finish(t, "stream_done", Append(th[t].events, DoneEvent), th[t].response)
    /\ UNCHANGED <<pf, rag_engine, max_history, conversations, heap, nreq, appended, everCleared>>

\* ------------------------------------------------------- clear_conversation
\* if session_id in self.conversations:
ClearCheck(t) ==
    /\ th[t].pc = "clear_check"
    /\ th' = IF conversations[th[t].session_id] = NoList
             THEN Finish(t, "200", <<>>, <<>>)
             ELSE [th EXCEPT ![t].pc = "clear_del"]
    /\ UNCHANGED <<pf, rag_engine, max_history, conversations, heap, nreq, appended, everCleared>>

\* a del that empties the whole dict
DeletedAll(c, s) == [x \in Sessions |-> NoList]

\* the dict after del self.conversations[session_id]
Deleted(c, s) == [c EXCEPT ![s] = NoList]

\* del self.conversations[session_id]; a KeyError is answered with 500
ClearDel(t) ==
    /\ th[t].pc = "clear_del"
    /\ IF conversations[th[t].session_id] = NoList
       THEN /\ th' = Finish(t, "500", <<>>, <<>>)
            /\ UNCHANGED <<conversations, appended>>
       ELSE /\ th' = Finish(t, "200", <<>>, <<>>)
            /\ conversations' = Deleted(conversations, th[t].session_id)
            /\ appended' = [appended EXCEPT ![th[t].session_id] = <<>>]
    /\ heap' = Collect(heap, conversations', th')
    /\ UNCHANGED <<pf, rag_engine, max_history, nreq, everCleared>>

\* ------------------------------------------------------------ specifications
Steps(t, w) ==
    \/ GetHistory(t)
    \/ BuildPrompt(t)
    \/ Generate(t, w.backend)
    \/ AddCheck(t)
    \/ AddCreate(t)
    \/ AddLookup(t)
    \/ AddAppend(t)
    \/ AddLen(t)
    \/ AddSlice(t)
    \/ AddStore(t)
    \/ StreamOpen(t, w.backend)
    \/ StreamChunk(t)
    \/ StreamFallback(t)
    \/ StreamEnd(t)
    \/ Abandon(t)
    \/ YieldDone(t)
    \/ ClearCheck(t)
    \/ ClearDel(t)

Starts(t, w) ==
    \/ StartChat(t, w)
    \/ StartStream(t, w)
    \/ StartClear(t, w)

\* what the constructor of the engine and similarity_search may do
NoStore == [raises |-> FALSE, vector_store |-> FALSE]
CtorRaises == [raises |-> TRUE, vector_store |-> FALSE]
SearchRaises == [raises |-> TRUE, found |-> <<>>]

\* request threads run in parallel, the engine is created without a vector store
World ==
    [limit |-> MaxRequests, messages |-> RawMessages, backend |-> BackendPar,
     ctor |-> {NoStore}, search |-> {SearchRaises}]

Next == \E t \in Threads : Starts(t, World) \/ Steps(t, World)

Spec == Init /\ [][Next]_vars

\* one request at a time: a single worker serves the requests in turn; the
\* constructor of the engine may raise
Worker == "t1"

WorldSeq ==
    [limit |-> MaxRequestsSeq, messages |-> RawMessages, backend |-> Backend,
     ctor |-> {NoStore, CtorRaises}, search |-> {SearchRaises}]

NextSeq == Starts(Worker, WorldSeq) \/ Steps(Worker, WorldSeq)

SpecSeq == Init /\ [][NextSeq]_vars

\* request threads run in parallel and the first requests create the engine
\* step by step; the constructor may raise
WorldInit ==
    [limit |-> MaxRequests, messages |-> RawMessages, backend |-> BackendPar,
     ctor |-> {NoStore, CtorRaises}, search |-> {SearchRaises}]

NextInit ==
    \E t \in Threads :
        \/ EnterInit(t, WorldInit)
        \/ InitAssign(t, WorldInit)
        \/ rag_engine.made /\ StartChat(t, WorldInit)
        \/ rag_engine.made /\ StartStream(t, WorldInit)
        \/ StartClear(t, WorldInit)
        \/ Steps(t, WorldInit)

SpecInit == Init /\ [][NextInit]_vars

\* ------------------------------------------------ retrieval with documents
MaxRequestsDoc == 2

\* passages of two handbooks, and one without metadata
DocOde == Document(<<" ", "O", "d", "e", " ", "e", "l", "e", "g", "y", " ", "e", "p", "i", "c", " ", "o", "f", " ", "L", "a", "t", "i", "n", "\n">>, {<<"source_file", "a.pdf">>})
DocElegy == Document(<<"e", "l", "e", "g", "y", " ", "e", "p", "i", "c", " ", "t", "h", "e", " ", "o", "d", "e">>, {<<"source_file", "a.pdf">>})
DocProse == Document(<<"o", "d", "e", " ", "e", "l", "e", "g", "y", " ", "a">>, {<<"source_file", "b.pdf">>})
DocBare == Document(<<"z", "z", "z">>, {})
DocLong == Document([i \in 1..201 |-> "x"], {<<"source_file", "b.pdf">>})

WithStore == [raises |-> FALSE, vector_store |-> TRUE]

\* similarity_search returns passages, or raises where it would have returned them
SearchDoc ==
    { [raises |-> FALSE, found |-> <<DocOde, DocProse, DocElegy>>],
      [raises |-> TRUE, found |-> <<DocOde, DocProse, DocElegy>>] }

MessagesDoc == { <<" ">>, <<"L", "a", "t", "i", "n", " ">> }

BackendDoc ==
    { [frags |-> <<>>, fails |-> TRUE, up |-> FALSE],
      [frags |-> << <<"a", "n", " ", "o", "d", "e">>, <<" ", "e", "p", "i", "c", " ", "e", "l", "e", "g", "y", " ">> >>, fails |-> FALSE, up |-> TRUE],
      [frags |-> << <<"a">> >>, fails |-> FALSE, up |-> TRUE] }

\* one request at a time, the engine with or without a vector store
WorldDoc ==
    [limit |-> MaxRequestsDoc, messages |-> MessagesDoc, backend |-> BackendDoc,
     ctor |-> {NoStore, WithStore}, search |-> SearchDoc]

NextDoc == Starts(Worker, WorldDoc) \/ Steps(Worker, WorldDoc)

SpecDoc == Init /\ [][NextDoc]_vars

\* --------------------------------------------- the pure methods on their own
MaxDocs == 3

Passages == {DocOde, DocElegy, DocProse, DocBare, DocLong}

\* the lists of at most MaxDocs passages
RECURSIVE DocListsOf(_)
DocListsOf(n) ==
    IF n = 0 THEN {<<>>}
    ELSE DocListsOf(n - 1)
         \cup {Append(l, d) : l \in {x \in DocListsOf(n - 1) : Len(x) = n - 1},
                              d \in Passages}

DocLists == DocListsOf(MaxDocs)

Queries ==
    { <<"L", "a", "t", "i", "n">>,
      <<"h", "i", " ", "l", "a", "t", "i", "n">>,
      <<"t", "h", "i", "s", " ", "l", "a", "t", "i", "n">>,
      <<"T", "h", "a", "n", "k", " ", "Y", "o", "u", " ", "f", "o", "r", " ", "t", "h", "e", " ", "p", "o", "e", "t", "r", "y">>,
      <<"o", "d", "e">>,
      <<"h", "e", "l", "l", "o">> }

Responses ==
    { <<"L", "a", "t", "i", "n">>,
      <<"o", "d", "e", " ", "e", "l", "e", "g", "y", " ", "e", "p", "i", "c">>,
      <<"O", "D", "E", " ", "E", "l", "e", "g", "y", "\n", "e", "p", "i", "c">>,
      <<"t", "h", "e", " ", "o", "d", "e", " ", "e", "l", "e", "g", "y", " ", "a">>,
      <<"x">>,
      Fallback }

\* what memory can hand to build_prompt: no turn, a user turn, a pair, seven turns
HistoryTurn(i) ==
    [role |-> IF i % 2 = 1 THEN "user" ELSE "assistant", content |-> <<"t", ToString(i)>>]

Histories == { [i \in 1..n |-> HistoryTurn(i)] : n \in {0, 1, 2, 7} }

\* a call of a pure method, with its arguments and its result
PureCall(fn, documents, query, response, context, history, result) ==
    [fn |-> fn, documents |-> documents, query |-> query, response |-> response,
     context |-> context, history |-> history, result |-> result]

CallShouldShowSources ==
    /\ pf.fn = "none"
    /\ \E documents \in DocLists, query \in Queries, response \in Responses :
          pf' = PureCall("should_show_sources", documents, query, response, <<>>, <<>>,
                         ShouldShowSources(documents, query, response))
    /\ UNCHANGED <<max_history, conversations, heap, th, nreq, appended, everCleared,
                   rag_engine>>

\* the end of RAGEngine.chat: the sources of the result
CallResultSources ==
    /\ pf.fn = "none"
    /\ \E documents \in DocLists, query \in Queries, response \in Responses :
          pf' = PureCall("result_sources", documents, query, response, <<>>, <<>>,
                         ResultSources(documents, query, response))
    /\ UNCHANGED <<max_history, conversations, heap, th, nreq, appended, everCleared,
                   rag_engine>>

\* build_prompt on a context format_context made
CallBuildPrompt ==
    /\ pf.fn = "none"
    /\ \E documents \in DocLists, query \in Queries, history \in Histories :
          pf' = PureCall("build_prompt", documents, query, <<>>,
                         FormatContext(documents), history,
                         PromptParts(query, FormatContext(documents), history))
    /\ UNCHANGED <<max_history, conversations, heap, th, nreq, appended, everCleared,
                   rag_engine>>

\* passages around the cap of format_context: 500 characters, 501, and 500
\* between a leading and a trailing blank
Doc500 == Document([i \in 1..500 |-> "x"], {<<"source_file", "a.pdf">>})
Doc501 == Document([i \in 1..501 |-> "y"], {<<"source_file", "b.pdf">>})
DocPadded ==
    Document(<<" ">> \o [i \in 1..500 |-> "z"] \o <<"\n">>, {<<"source_file", "a.pdf">>})

ContextPassages == {DocOde, DocBare, Doc500, Doc501, DocPadded}

RECURSIVE DocListsOver(_, _)
DocListsOver(passages, n) ==
    IF n = 0 THEN {<<>>}
    ELSE DocListsOver(passages, n - 1)
         \cup {Append(l, d) : l \in {x \in DocListsOver(passages, n - 1) : Len(x) = n - 1},
                              d \in passages}

CallFormatContext ==
    /\ pf.fn = "none"
    /\ \E documents \in DocListsOver(ContextPassages, MaxDocs) :
          pf' = PureCall("format_context", documents, <<>>, <<>>, <<>>, <<>>,
                         FormatContext(documents))
    /\ UNCHANGED <<max_history, conversations, heap, th, nreq, appended, everCleared,
                   rag_engine>>

Return ==
    /\ pf.fn # "none"
    /\ pf' = NoCall
    /\ UNCHANGED <<max_history, conversations, heap, th, nreq, appended, everCleared,
                   rag_engine>>

NextFn ==
    \/ CallShouldShowSources
    \/ CallResultSources
    \/ CallBuildPrompt
    \/ CallFormatContext
    \/ Return

SpecFn == Init /\ [][NextFn]_vars

\* ==================================================================== claims
\* no thread is between the first and the last step of an add_message call
InAdd(t) ==
    th[t].pc \in {"add_create", "add_lookup", "add_append", "add_len",
                  "add_slice", "add_store"}

NoAddInProgress == \A t \in Threads : ~InAdd(t)

Min(a, b) == IF a < b THEN a ELSE b

\* the last k elements of h, all of h when it has fewer
Suffix(h, k) == SubSeq(h, Len(h) - Min(Len(h), k) + 1, Len(h))

\* C1: whenever no add_message call is in progress (so immediately after
\* every call), every session's stored log has at most 2 * max_history
\* turns, for every max_history >= 0.
C1_BoundAfterEveryAdd ==
    NoAddInProgress => \A s \in Sessions : Len(Log(s)) <= 2 * max_history

\* C2: after N add_message calls on a session since its last clear, the
\* stored log is exactly the last min(N, 2 * max_history) appended turns, in
\* append order, role and content unchanged.
C2_FifoSuffix ==
    NoAddInProgress =>
        \A s \in Sessions : Log(s) = Suffix(appended[s], 2 * max_history)

\* C3: once an append has overflowed the bound and turns were evicted, the
\* first retained turn is a user turn and the turn after it is the assistant
\* reply of the same request.
C3_EvictionKeepsPairs ==
    NoAddInProgress =>
        \A s \in Sessions :
            Len(Log(s)) < Len(appended[s]) =>
                /\ Len(Log(s)) >= 2
                /\ Log(s)[1].role = "user"
                /\ Log(s)[2].role = "assistant"
                /\ Log(s)[2].inv = Log(s)[1].inv

\* C4: a clear request always succeeds; afterwards its session is absent and
\* reads as the empty sequence, every other session is as it was before the
\* request, and a clear of a session that was already absent changes nothing
\* (so a second clear leaves the state of the first).
C4_ClearTotalIdempotent ==
    \A t \in Threads :
        (th[t].pc = "done" /\ th[t].op = "clear") =>
            /\ th[t].status = "200"
            /\ conversations[th[t].session_id] = NoList
            /\ Log(th[t].session_id) = <<>>
            /\ \A s \in Sessions \ {th[t].session_id} : Log(s) = th[t].pre[s]
            /\ th[t].pre[th[t].session_id] = <<>> => Logs = th[t].pre

\* a clear of a session holding turns has completed while another session holds turns
C4_Witness ==
    \E t \in Threads :
        /\ th[t].pc = "done" /\ th[t].op = "clear"
        /\ th[t].pre[th[t].session_id] # <<>>
        /\ \E s \in Sessions \ {th[t].session_id} : Log(s) # <<>>

\* a clear of a session that was already absent has completed
C4_WitnessAbsent ==
    \E t \in Threads :
        /\ th[t].pc = "done" /\ th[t].op = "clear"
        /\ th[t].pre[th[t].session_id] = <<>>
        /\ \E s \in Sessions : Log(s) # <<>>

\* ------------------------------------------------- requests run in parallel
AllFree == \A t \in Threads : Free(t)

Range(f) == {f[i] : i \in DOMAIN f}

RECURSIVE Perms(_)
Perms(S) ==
    IF S = {} THEN {<<>>}
    ELSE UNION {{<<x>> \o p : p \in Perms(S \ {x})} : x \in S}

\* the log a sequence of add_message calls leaves when run one after another
RECURSIVE RunAdds(_, _)
RunAdds(log, calls) ==
    IF calls = <<>> THEN log
    ELSE RunAdds(SeqAddMessage(log, Head(calls), max_history), Tail(calls))

IsChatOp(t) == th[t].op \in {"chat", "stream"}

UserTurn(t) == Turn("user", th[t].user_message, th[t].inv)
AssistantTurn(t) == Turn("assistant", th[t].response, th[t].inv)

\* C5: once all requests have returned (none of them a clear, no turn lost
\* or evicted), every user turn in a session's log is immediately followed
\* by the assistant turn of the same request: the pairs of overlapping
\* requests are not interleaved.
C5_PairsNotInterleaved ==
    (AllFree /\ ~everCleared /\ \A s \in Sessions : Len(Log(s)) = Len(appended[s])) =>
        \A s \in Sessions : \A i \in 1..Len(Log(s)) :
            Log(s)[i].role = "user" =>
                /\ i < Len(Log(s))
                /\ Log(s)[i + 1].role = "assistant"
                /\ Log(s)[i + 1].inv = Log(s)[i].inv

\* C6: once all add_message calls have returned (no clear among the
\* requests), each session's log is the log some sequential order of the
\* calls on that session produces.
C6_NoLostTurn ==
    (AllFree /\ ~everCleared) =>
        \A s \in Sessions :
            Log(s) \in {RunAdds(<<>>, p) : p \in Perms(Range(appended[s]))}

\* C7: an add_message racing with a clear of the same session never raises,
\* and when a chat request and a clear of its session have both returned the
\* log is the one some order of the clear and the two add_message calls gives.
C7_AddClearRaceSafe ==
    /\ \A t \in Threads : IsChatOp(t) => th[t].status \notin {"500", "stream_error"}
    /\ \A x, c \in Threads :
          (/\ AllFree /\ IsChatOp(x) /\ th[x].status \in {"200", "stream_done"}
           /\ th[c].op = "clear" /\ th[c].session_id = th[x].session_id) =>
              Log(th[x].session_id) \in
                  {<<>>, <<AssistantTurn(x)>>, <<UserTurn(x), AssistantTurn(x)>>}

\* no turn of request thread t is in any session's log
NoTurnOf(t) ==
    \A s \in Sessions : \A i \in 1..Len(Log(s)) : Log(s)[i].inv # th[t].inv

\* C8: a request about to read a session's log finds, of a streaming request
\* of another thread, none or both turns (never the user turn alone, never
\* an assistant turn other than the full accumulated reply); and a stream
\* its consumer abandoned has left no turn in memory.
C8_StreamAtomicInMemory ==
    /\ \A r, x \in Threads :
          (/\ r # x /\ th[r].pc = "get_history" /\ th[x].op = "stream"
           /\ th[x].pc # "idle" /\ th[r].session_id = th[x].session_id) =>
              LET log == Log(th[r].session_id)
              IN /\ (\E i \in 1..Len(log) : log[i] = UserTurn(x)) =>
                        (\E j \in 1..Len(log) : log[j].inv = th[x].inv
                                                /\ log[j].role = "assistant")
                 /\ \A j \in 1..Len(log) :
                        (log[j].inv = th[x].inv /\ log[j].role = "assistant") =>
                            log[j] = AssistantTurn(x)
    /\ \A t \in Threads : th[t].status = "abandoned" => NoTurnOf(t)

\* the part of C8 about the abandoned stream, on its own
AbandonLeavesNoTurn ==
    \A t \in Threads : th[t].status = "abandoned" => NoTurnOf(t)

\* C9: a stream consumed to its end has emitted exactly one event with
\* done = TRUE, as its last event, and before it only chunk events with
\* done = FALSE; a stream still running has emitted only such chunk events.
ChunksOnly(events) ==
    \A i \in 1..Len(events) : events[i].kind = "chunk" /\ ~events[i].done

C9_OneTerminalDoneEvent ==
    \A t \in Threads :
        th[t].op = "stream" =>
            IF th[t].status \in {"stream_done", "stream_error"}
            THEN /\ th[t].events # <<>>
                 /\ th[t].events[Len(th[t].events)].done
                 /\ ChunksOnly(SubSeq(th[t].events, 1, Len(th[t].events) - 1))
            ELSE ChunksOnly(th[t].events)

\* a stream whose memory update raised after chunks were forwarded has ended
C9_Witness ==
    \E t \in Threads :
        /\ th[t].op = "stream" /\ th[t].status = "stream_error"
        /\ Len(th[t].events) >= 2

\* a stream has ended normally after a fallback fragment
C9_WitnessDone ==
    \E t \in Threads :
        /\ th[t].op = "stream" /\ th[t].status = "stream_done"
        /\ th[t].fellback /\ Len(th[t].events) >= 3

\* the memory a blocking chat(q, s) with reply r leaves when it starts from `pre`
BlockingChatLogs(pre, s, q, r) ==
    [pre EXCEPT ![s] = SeqAddMessage(
                           SeqAddMessage(@, Turn("user", q, 0), max_history),
                           Turn("assistant", r, 0), max_history)]

\* C10: a streaming chat whose backend streamed fragments concatenating to
\* `raw` ends with the accumulated text that the blocking chat returns for
\* the completion `raw`, and with the memory the blocking chat leaves.
C10_StreamEqualsBlocking ==
    \A t \in Threads :
        (th[t].op = "stream" /\ th[t].status = "stream_done" /\ ~th[t].fails) =>
            LET r == GenerateResponse(<<th[t].raw>>, FALSE)
                expect == BlockingChatLogs(th[t].pre, th[t].session_id,
                                           th[t].user_message, r)
            IN /\ th[t].response = r
               /\ \A s \in Sessions : StoredSeq(Log(s)) = StoredSeq(expect[s])

\* -------------------------------------------------- the backend raises
\* the texts of the chunk events among the first n events
ChunkTexts(events, n) == [i \in 1..n |-> events[i].text]

\* C11: a streaming chat whose backend raised after k >= 0 forwarded
\* fragments, consumed to its end, has emitted the k fragments, then exactly
\* one further fragment (the apology), then the done event as its last
\* event; its accumulated reply is the k fragments followed by the apology,
\* and memory holds what a blocking chat with that reply leaves (the user
\* turn and one assistant turn appended).
C11_StreamFailureFallsBack ==
    \A t \in Threads :
        (th[t].op = "stream" /\ th[t].status = "stream_done" /\ th[t].fails) =>
            LET ev == th[t].events
                n == Len(ev)
                expect == BlockingChatLogs(th[t].pre, th[t].session_id,
                                           th[t].user_message, th[t].raw \o Fallback)
            IN /\ n >= 2
               /\ ev[n] = DoneEvent
               /\ ev[n - 1] = ChunkEvent(Fallback)
               /\ ChunksOnly(SubSeq(ev, 1, n - 1))
               /\ Concat(ChunkTexts(ev, n - 2)) = th[t].raw
               /\ th[t].response = th[t].raw \o Fallback
               /\ \A s \in Sessions : StoredSeq(Log(s)) = StoredSeq(expect[s])

\* a stream whose backend raised after two forwarded fragments has ended
C11_Witness ==
    \E t \in Threads :
        /\ th[t].op = "stream" /\ th[t].status = "stream_done" /\ th[t].fails
        /\ Len(th[t].events) = 4
        /\ th[t].pre[th[t].session_id] # <<>>

\* a stream whose backend raised before any fragment has ended
C11_WitnessNoFragment ==
    \E t \in Threads :
        /\ th[t].op = "stream" /\ th[t].status = "stream_done" /\ th[t].fails
        /\ Len(th[t].events) = 2

\* C12: a blocking chat whose backend raised returns normally (200), its
\* response is the fixed apology, and memory holds what a successful chat
\* with that reply leaves: the user turn and the assistant turn appended.
C12_BlockingFailureFallsBack ==
    \A t \in Threads :
        (th[t].op = "chat" /\ th[t].pc = "done" /\ th[t].fails) =>
            LET expect == BlockingChatLogs(th[t].pre, th[t].session_id,
                                           th[t].user_message, Fallback)
            IN /\ th[t].status = "200"
               /\ th[t].response = Fallback
               /\ \A s \in Sessions : StoredSeq(Log(s)) = StoredSeq(expect[s])

\* a blocking chat whose backend raised after a fragment has returned, in a
\* session that already held turns
C12_Witness ==
    \E t \in Threads :
        /\ th[t].op = "chat" /\ th[t].pc = "done" /\ th[t].fails
        /\ th[t].raw # <<>>
        /\ th[t].pre[th[t].session_id] # <<>>

\* ------------------------------------------- blank input, missing engine
\* the request body of a chat or streaming request carried a blank message
BlankRequest(t) == IsChatOp(t) /\ th[t].pc = "done" /\ Strip(th[t].body) = <<>>

\* C13: a chat or streaming request with a blank message (empty after
\* stripping) is answered with the input error (400) before any call to the
\* outside was made (no connection test of the engine, no retrieval, no
\* completion), and memory is as it was for every session.
C13_BlankRejectedBeforeAnyCall ==
    \A t \in Threads :
        BlankRequest(t) =>
            /\ th[t].status = "400"
            /\ th[t].calls = <<>>
            /\ Logs = th[t].pre

\* the part of C13 that holds: a blank request is answered with an error,
\* makes no retrieval and no completion call, and leaves memory as it was
BlankLeavesMemoryAlone ==
    \A t \in Threads :
        BlankRequest(t) =>
            /\ th[t].status \in {"400", "unavailable"}
            /\ \A i \in 1..Len(th[t].calls) : th[t].calls[i] = "connection_test"
            /\ Logs = th[t].pre

\* C14: a chat or streaming request whose completion backend could not be
\* reached, or that found no engine, ends with the explicit engine error and
\* not with a reply: the blocking chat is answered with that error, the
\* stream consists of the single error event, and memory is as it was.
C14_UnreachableIsExplicitError ==
    \A t \in Threads :
        (/\ IsChatOp(t) /\ th[t].pc = "done" /\ Strip(th[t].body) # <<>>
         /\ (th[t].unreachable \/ th[t].status = "unavailable")) =>
            /\ th[t].op = "chat" => th[t].status = "unavailable"
            /\ th[t].op = "stream" =>
                   th[t].status = "stream_error" /\ th[t].events = <<ErrorEvent>>
            /\ Logs = th[t].pre

\* the part of C14 that holds: a blocking chat that found no engine is
\* answered with the engine error, and no request that found no engine
\* touches memory
NoEngineLeavesMemoryAlone ==
    \A t \in Threads :
        th[t].status = "unavailable" => th[t].calls = <<>> /\ Logs = th[t].pre

\* ------------------------------------------------------ retrieval fails
SearchFailed(t) == th[t].search \in {"no_store", "raised"}

\* the request holds the prompt build_prompt returned
PromptBuilt(t) == th[t].pc \notin {"idle", "done", "get_history", "build_prompt"}

\* C15: when the engine has no vector store or similarity_search raises,
\* search_documents returns the empty list, and the blocking chat completes
\* with a reply: its prompt has no context section, the sources of its
\* result are empty, and the user turn and the assistant turn are appended
\* to memory as for any reply.
C15_SearchFailureMeansNoContext ==
    \A t \in Threads :
        (th[t].op = "chat" /\ SearchFailed(t)) =>
            /\ th[t].relevant_docs = <<>>
            /\ PromptBuilt(t) => ~Contains(th[t].prompt, ContextHeader)
            /\ th[t].pc = "done" =>
                   LET expect == BlockingChatLogs(th[t].pre, th[t].session_id,
                                                  th[t].user_message, th[t].response)
                   IN /\ th[t].status = "200"
                      /\ th[t].sources = <<>>
                      /\ \A s \in Sessions : StoredSeq(Log(s)) = StoredSeq(expect[s])

\* a blocking chat whose similarity_search raised has returned a reply that
\* shares three words with a stored passage, in a session that held turns
C15_Witness ==
    \E t \in Threads :
        /\ th[t].op = "chat" /\ th[t].pc = "done" /\ th[t].search = "raised"
        /\ Len(th[t].response) > 1
        /\ th[t].pre[th[t].session_id] # <<>>

\* a blocking chat whose search succeeded has returned sources, and one has
\* built a prompt with a context section
C15_WitnessSources ==
    \E t \in Threads :
        /\ th[t].op = "chat" /\ th[t].pc = "done" /\ th[t].search = "ok"
        /\ th[t].sources # <<>>

C15_WitnessContext ==
    \E t \in Threads :
        /\ th[t].op = "chat" /\ PromptBuilt(t) /\ Contains(th[t].prompt, ContextHeader)

\* C16: a chat request never ends in an error other than the input error
\* for a blank message and the engine error for a missing engine (whatever
\* retrieval, context formatting and the attribution filter did, the request
\* returns a reply), and a request that ended in an error has left no turn
\* in memory.
C16_OnlyInputAndEngineFailures ==
    \A t \in Threads :
        (IsChatOp(t) /\ th[t].pc = "done" /\ th[t].status # "abandoned") =>
            /\ \/ th[t].status \in {"200", "stream_done"}
               \/ th[t].status = "400" /\ Strip(th[t].body) = <<>>
               \/ th[t].status = "unavailable"
            /\ th[t].status \notin {"200", "stream_done"} => NoTurnOf(t)

\* ------------------------------------------------------- attribution filter
\* the text, in lower case, has one of the keywords somewhere in it
Matches(text, keywords) ==
    \E k \in keywords : \E i \in 1..Len(text) :
        i + Len(k) - 1 <= Len(text)
        /\ \A j \in 1..Len(k) : LowerChar(text[i + j - 1]) = k[j]

\* the lower-case words of the text that are no stopwords
MeaningfulWords(text) == Words(Lower(text)) \ common_words

SharedWords(doc, response) ==
    Cardinality(MeaningfulWords(doc.page_content) \cap MeaningfulWords(response))

\* C17: when the query matches an off-topic keyword, _should_show_sources
\* returns False for every passage list and every response, also when the
\* query matches a domain keyword as well and the response shares three
\* meaningful words with a passage.
C17_OffTopicWins ==
    (pf.fn = "should_show_sources" /\ Matches(pf.query, general_keywords)) =>
        pf.result = FALSE

\* the filter was called with a query matching an off-topic and a domain
\* keyword, and a response sharing three meaningful words with a passage
C17_Witness ==
    /\ pf.fn = "should_show_sources"
    /\ Matches(pf.query, general_keywords)
    /\ Matches(pf.query, neo_latin_keywords)
    /\ \E i \in 1..Len(pf.documents) : SharedWords(pf.documents[i], pf.response) >= 3

C18_WitnessStopword ==
    /\ pf.fn = "should_show_sources" /\ ~pf.result
    /\ Matches(pf.query, neo_latin_keywords) /\ ~Matches(pf.query, general_keywords)
    /\ \E i \in 1..Len(pf.documents) :
          /\ SharedWords(pf.documents[i], pf.response) = 2
          /\ Cardinality(Words(Lower(pf.documents[i].page_content))
                             \cap Words(Lower(pf.response))) >= 3

\* ------------------------------------------------------------------ sources
FileOf(doc) == MetadataGet(doc.metadata, "source_file", "Unknown")

\* the position of the first passage of the file in the list
FirstOf(docs, file) ==
    CHOOSE i \in 1..Len(docs) :
        FileOf(docs[i]) = file /\ \A j \in 1..(i - 1) : FileOf(docs[j]) # file

\* C19: the sources of a chat result are empty when the attribution filter
\* says False; otherwise they hold one entry per source file among the
\* retrieved passages, the entry of a file is made from the first passage of
\* that file, and the entries are in the order in which the files first occur.
C19_SourcesFirstPerFile ==
    pf.fn = "result_sources" =>
        LET docs == pf.documents
            out == pf.result
        IN IF ~ShouldShowSources(docs, pf.query, pf.response) THEN out = <<>>
           ELSE /\ \A i, k \in 1..Len(out) : i # k => out[i].file # out[k].file
                /\ {out[i].file : i \in 1..Len(out)} = {FileOf(docs[j]) : j \in 1..Len(docs)}
                /\ \A i \in 1..Len(out) :
                      out[i] = SourceEntry(docs[FirstOf(docs, out[i].file)])
                /\ \A i, k \in 1..Len(out) :
                      i < k => FirstOf(docs, out[i].file) < FirstOf(docs, out[k].file)

\* sources were returned for three passages, the first and the last of one
\* file with different text, the second of another file
C19_Witness ==
    /\ pf.fn = "result_sources" /\ pf.result # <<>>
    /\ Len(pf.documents) = 3
    /\ FileOf(pf.documents[1]) = FileOf(pf.documents[3])
    /\ FileOf(pf.documents[1]) # FileOf(pf.documents[2])
    /\ pf.documents[1].page_content # pf.documents[3].page_content

\* no sources were returned for passages the filter turned down
C19_WitnessHidden ==
    /\ pf.fn = "result_sources" /\ pf.result = <<>> /\ pf.documents # <<>>

\* ------------------------------------------------------------- build_prompt
\* the part opens with the header
StartsWith(part, header) ==
    Len(part) >= Len(header) /\ SubSeq(part, 1, Len(header)) = header

\* the positions of the parts of a prompt that open with the header
SectionsAt(parts, header) == {i \in 1..Len(parts) : StartsWith(parts[i], header)}

C20_WitnessBare ==
    /\ pf.fn = "build_prompt" /\ pf.context = <<>> /\ pf.history = <<>>

\* the step of a request that builds the prompt leaves memory as it is
BuildPromptReadsOnly ==
    [][\A t \in Threads :
          (th[t].pc = "build_prompt" /\ th'[t].pc # "build_prompt") =>
              /\ conversations' = conversations
              /\ \A s \in Sessions : Deref(heap', conversations'[s]) = Log(s)]_vars

\* the parts of a prompt after the history header and before the new user turn
HistoryLinesOf(parts) ==
    LET h == SectionsAt(parts, HistoryHeader)
    IN IF h = {} THEN <<>>
       ELSE SubSeq(parts, (CHOOSE i \in h : TRUE) + 1, Len(parts) - 2)

\* C21: for a history of n turns the prompt has exactly min(n, 6) history
\* lines, they render the last min(n, 6) turns in their order (a user turn as
\* "Human: <content>", an assistant turn as "Assistant: <content>"), and no
\* older turn is rendered.
C21_LastSixTurns ==
    pf.fn = "build_prompt" =>
        LET n == Len(pf.history)
            m == Min(n, 6)
            lines == HistoryLinesOf(pf.result)
        IN /\ Len(lines) = m
           /\ Len(lines) <= 6
           /\ \A i \in 1..m :
                  LET turn == pf.history[n - m + i]
                  IN lines[i] = <<IF turn.role = "user" THEN "Human" ELSE "Assistant",
                                  ":", " ">> \o turn.content
           /\ \A j \in 1..(n - m) : \A i \in 1..Len(pf.result) :
                  ~Contains(pf.result[i], pf.history[j].content)

\* a prompt was built from a history of seven turns
C21_Witness ==
    /\ pf.fn = "build_prompt" /\ Len(pf.history) = 7
    /\ Len(HistoryLinesOf(pf.result)) = 6

\* ----------------------------------------------------------- format_context
\* segment i of a context: its label and the content shown
Segment(i, doc, content) ==
    <<"[Source", " ", ToString(i), ":", " ",
      MetadataGet(doc.metadata, "source_file", "Unknown source"), "]", "\n">>
    \o (IF Len(content) <= 500 THEN content
        ELSE SubSeq(content, 1, 500) \o <<"...">>)

\* the segments, in rank order, with a blank line between two of them
RECURSIVE SegmentsFrom(_, _)
SegmentsFrom(segments, i) ==
    IF i > Len(segments) THEN <<>>
    ELSE segments[i]
         \o (IF i < Len(segments) THEN <<"\n", "\n">> ELSE <<>>)
         \o SegmentsFrom(segments, i + 1)

\* C22 as stated: format_context returns the empty string for no passage;
\* otherwise one segment per passage in rank order, numbered from 1 and
\* labelled with the source, segments separated by a blank line, the content
\* of a segment being the passage content unchanged when it has at most 500
\* characters and its first 500 characters and the marker otherwise.
C22_ContentUnchanged ==
    pf.fn = "format_context" =>
        pf.result = SegmentsFrom([i \in 1..Len(pf.documents) |->
                                    Segment(i, pf.documents[i],
                                            pf.documents[i].page_content)], 1)

\* C22: format_context returns the empty string for no passage; otherwise
\* one segment per passage in rank order, numbered from 1 and labelled with
\* the source, segments separated by a blank line, the content of a segment
\* being the passage content with its leading and trailing whitespace
\* removed when that has at most 500 characters, and the first 500
\* characters of it followed by the marker otherwise.
C22_StrippedContentCut ==
    pf.fn = "format_context" =>
        /\ pf.documents = <<>> => pf.result = <<>>
        /\ pf.result = SegmentsFrom([i \in 1..Len(pf.documents) |->
                                       Segment(i, pf.documents[i],
                                               Strip(pf.documents[i].page_content))], 1)

\* a context was made of a passage over the cap, a passage at the cap
\* between blanks, and a passage without a source
C22_Witness ==
    /\ pf.fn = "format_context"
    /\ pf.documents = <<Doc501, DocPadded, DocBare>>

\* ------------------------------------------------- the end of a stream
\* the chunk events of a stream, without its terminal event
ChunksOf(events) ==
    IF events # <<>> /\ events[Len(events)].done
    THEN SubSeq(events, 1, Len(events) - 1) ELSE events

\* C23: a stream emits its done event only after the user turn and the
\* assistant turn, whose content is the concatenation of the forwarded
\* chunks in order, were each appended to the list memory held for the
\* session at that moment; a stream whose memory update raised ends with the
\* error event and no done event.
C23_DoneAfterCommit ==
    \A t \in Threads :
        th[t].op = "stream" =>
            /\ (th[t].pc = "yield_done" \/ th[t].status = "stream_done") =>
                   /\ th[t].landed = <<TRUE, TRUE>>
                   /\ th[t].response =
                          Concat(ChunkTexts(ChunksOf(th[t].events),
                                            Len(ChunksOf(th[t].events))))
            /\ th[t].status = "stream_error" =>
                   /\ th[t].events[Len(th[t].events)] = ErrorEvent
                   /\ \A i \in 1..Len(th[t].events) : th[t].events[i] # DoneEvent

\* the part of C23 that holds whatever the interleaving: the done event
\* comes after two add_message calls that each appended to some list, the
\* assistant turn is the concatenation of the chunks, and a failed update
\* ends the stream with the error event
DoneAfterTwoAppends ==
    \A t \in Threads :
        th[t].op = "stream" =>
            /\ (th[t].pc = "yield_done" \/ th[t].status = "stream_done") =>
                   /\ Len(th[t].landed) = 2
                   /\ th[t].response =
                          Concat(ChunkTexts(ChunksOf(th[t].events),
                                            Len(ChunksOf(th[t].events))))
            /\ th[t].status = "stream_error" =>
                   /\ th[t].events[Len(th[t].events)] = ErrorEvent
                   /\ \A i \in 1..Len(th[t].events) : th[t].events[i] # DoneEvent

\* ------------------------------------------------ the frame of a chat call
\* C24: a blocking chat(q, s) served with no other request running reads,
\* for its prompt, the log of s as it was before the call; when it has
\* returned r, the log of s is the old log followed by the user turn q and
\* the assistant turn r, cut to its last 2 * max_history turns, and the log
\* of every other session is as it was.
C24_ChatFrame ==
    \A t \in Threads :
        th[t].op = "chat" =>
            /\ PromptBuilt(t) =>
                   th[t].prompt = PromptOf(th[t].user_message, th[t].context,
                                           StoredSeq(th[t].pre[th[t].session_id]))
            /\ (th[t].pc = "done" /\ th[t].status = "200") =>
                   LET s == th[t].session_id
                       new == th[t].pre[s] \o <<UserTurn(t), AssistantTurn(t)>>
                   IN /\ StoredSeq(Log(s)) = StoredSeq(Suffix(new, 2 * max_history))
                      /\ \A o \in Sessions \ {s} : Log(o) = th[t].pre[o]

\* C24 for every max_history >= 1
ChatFramePositiveHistory == max_history >= 1 => C24_ChatFrame

\* ------------------------------------------------- a clear and older work
\* C25: once a clear of session s has returned, the log of s holds no turn
\* of a chat or streaming request on s that began before the clear, also
\* when that request was still generating during the clear and ends later.
C25_ClearNotUndone ==
    \A c, x \in Threads :
        (/\ th[c].op = "clear" /\ th[c].pc = "done"
         /\ IsChatOp(x) /\ th[x].pc # "idle"
         /\ th[x].session_id = th[c].session_id
         /\ th[x].inv < th[c].inv) =>
            \A i \in 1..Len(Log(th[c].session_id)) :
                Log(th[c].session_id)[i].inv # th[x].inv

\* ------------------------------------------------ the history of a prompt
\* C26: the prompt a chat or streaming request builds holds the session's
\* log as it was when get_conversation_history returned: a turn another
\* request appends to the session between that read and build_prompt is not
\* in the prompt.
C26_PromptFromSnapshot ==
    [][\A t \in Threads :
          (th[t].pc = "build_prompt" /\ th'[t].pc # "build_prompt") =>
              th'[t].prompt = PromptOf(th[t].user_message, th[t].context, th[t].seen)]_vars

\* the callers of get_conversation_history only read what it returned: a
\* step that reads the history or builds the prompt changes no session's log
HistoryCallersOnlyRead ==
    [][\A t \in Threads :
          th[t].pc \in {"get_history", "build_prompt"} /\ th'[t] # th[t] =>
              \A s \in Sessions : Log(s)' = Log(s)]_vars

\* ------------------------------------------------- one engine, one memory
\* C27: the process creates at most one engine, also when its first
\* requests arrive together, and an engine that exists is never replaced:
\* no step changes rag_engine once it holds an engine.
C27_EngineNeverReplaced ==
    [][rag_engine.made => rag_engine' = rag_engine]_vars

\* with requests served one at a time, at most one engine is ever created
\* and it stays
OneEngineSeq ==
    rag_engine.created <= 1 /\ (rag_engine.created = 1 => rag_engine.made)

\* a blocking chat has returned its reply, nothing was ever cleared, and
\* the session's log is empty: a second engine took the place of the first
TurnsLostWithEngine ==
    \E t \in Threads :
        /\ th[t].op = "chat" /\ th[t].pc = "done" /\ th[t].status = "200"
        /\ ~everCleared
        /\ rag_engine.made /\ rag_engine.created = 2
        /\ Log(th[t].session_id) = <<>>

====
